---- MODULE Spec2Model ----
(***************************************************************************)
(* Model of src/elements.tsx: the element factory (withLanguage,           *)
(* withElementLevel, withAncestry), Heading, Head and Document, rendered   *)
(* depth first in document order as ReactDOMServer.renderToString does.    *)
(*                                                                         *)
(* A render is a run of the state machine: Document opens the html node    *)
(* and decides its children, every later step constructs the next element  *)
(* in document order against the contexts of the enclosing open element,   *)
(* and Close ends the children of the innermost open element.  A thrown    *)
(* Error ends the render.                                                  *)
(***************************************************************************)
EXTENDS Integers, Sequences, FiniteSets, TLC

VARIABLES
  status,   \* per render: "idle", "open", "ok" or the kind of the Error thrown
  ctx,      \* per render: the props of Document
  stack,    \* per render: the open elements, outermost first, each with the
            \* context values its children read
  rank,     \* per heading-level ref: headingLevelRef.current
  out,      \* per render: the emitted nodes in document order (html, its
            \* children and theirs), each with its depth
  last,     \* per render: the latest constructor call, what it read and emitted
  hist,     \* per render: the explicit heading levels requested so far, each
            \* with the depth of the heading and the number of calls before it
  error,    \* per render: the two numbers of the heading Error message
  calls     \* per render: caller-written constructor calls made so far

vars == <<status, ctx, stack, rank, out, last, hist, error, calls>>

----------------------------------------------------------------------------
(* Bounds *)

\* caller-written constructor calls beneath the children of Document, in a
\* render of any components
MaxCalls == 3

\* the same in the renders of headings and containers
MaxHeadingCalls == 5

\* renders that may be in progress at once
Docs == {1, 2}

----------------------------------------------------------------------------
(* Values *)

\* a prop or attribute that is absent (JavaScript undefined)
Undefined == "undefined"

None == "none"
InvalidContentModel == "InvalidContentModel"
InvalidNesting == "InvalidNesting"
SkippedHeadingRank == "SkippedHeadingRank"
TypeError == "TypeError"
\* the Error of React for a void element that is given children
VoidElement == "VoidElement"

ErrorKinds ==
  {InvalidContentModel, InvalidNesting, SkippedHeadingRank, TypeError, VoidElement}

\* the void elements among the names registered: React refuses to render
\* them with a children prop that is not null or undefined
VoidTags == {"link", "meta"}

\* JavaScript truthiness of a string-or-undefined prop
Truthy(v) == v # Undefined /\ v # ""

Includes(seq, x) == \E i \in 1..Len(seq) : seq[i] = x

Abs(n) == IF n < 0 THEN -n ELSE n

HeadingLevel == 1..6

----------------------------------------------------------------------------
(* The registry filled by the element() calls *)

Factory ==
  {"Anchor", "Body", "DescriptionDetails", "DescriptionList", "DescriptionTerm",
   "Div", "H1", "H2", "H3", "H4", "H5", "H6", "Head", "Link", "Main", "Meta",
   "Span"}

ElementNameOf(type) ==
  CASE type = "Anchor" -> "a"
    [] type = "Body" -> "body"
    [] type = "DescriptionDetails" -> "dd"
    [] type = "DescriptionList" -> "dl"
    [] type = "DescriptionTerm" -> "dt"
    [] type = "Div" -> "div"
    [] type = "H1" -> "h1"
    [] type = "H2" -> "h2"
    [] type = "H3" -> "h3"
    [] type = "H4" -> "h4"
    [] type = "H5" -> "h5"
    [] type = "H6" -> "h6"
    [] type = "Head" -> "head"
    [] type = "Link" -> "link"
    [] type = "Main" -> "main"
    [] type = "Meta" -> "meta"
    [] type = "Span" -> "span"

ElementLevels(name) ==
  CASE name = "a" -> "inline"
    [] name = "body" -> "block"
    [] name = "dd" -> "block"
    [] name = "dl" -> "block"
    [] name = "dt" -> "block"
    [] name = "div" -> "block"
    [] name \in {"h1", "h2", "h3", "h4", "h5", "h6"} -> "block"
    [] name = "head" -> "block"
    [] name = "link" -> "block"
    [] name = "main" -> "block"
    [] name = "meta" -> "block"
    [] name = "span" -> "inline"

\* ElementContentCategories where itemProp makes a meta flow and phrasing
\* content instead of metadata
ElementContentCategoriesReclassified(name, props) ==
  CASE name = "a" -> {"flow", "phrasing"}
    [] name = "body" -> {}
    [] name = "dd" -> {"flow"}
    [] name = "dl" -> {"flow"}
    [] name = "dt" -> {"flow"}
    [] name = "div" -> {"flow"}
    [] name \in {"h1", "h2", "h3", "h4", "h5", "h6"} -> {"flow", "heading"}
    [] name = "head" -> {}
    [] name = "link" -> {"metadata"}
    [] name = "main" -> {"flow"}
    [] name = "meta" -> IF Truthy(props.itemProp)
                        THEN {"flow", "phrasing"}
                        ELSE {"metadata"}
    [] name = "span" -> {"flow", "phrasing"}

ElementContentCategories(name, props) ==
  CASE name = "a" -> {"flow", "phrasing"}
    [] name = "body" -> {}
    [] name = "dd" -> {"flow"}
    [] name = "dl" -> {"flow"}
    [] name = "dt" -> {"flow"}
    [] name = "div" -> {"flow"}
    [] name \in {"h1", "h2", "h3", "h4", "h5", "h6"} -> {"flow", "heading"}
    [] name = "head" -> {}
    [] name = "link" -> {"metadata"}
    [] name = "main" -> {"flow"}
    [] name = "meta" -> IF Truthy(props.itemProp)
                        THEN {"flow", "metadata", "phrasing"}
                        ELSE {"metadata"}
    [] name = "span" -> {"flow", "phrasing"}

----------------------------------------------------------------------------
(* React elements as the caller writes them *)

\* type: the component; lang, level, itemProp, items: its props; kids: its
\* children ("none": no children, "text": a text, "free": elements the caller
\* writes beneath it, "plan": the elements listed in plan)
El(type, lang, level, itemProp, items, kids, text, plan) ==
  [type |-> type, lang |-> lang, level |-> level, itemProp |-> itemProp,
   items |-> items, kids |-> kids, text |-> text, plan |-> plan]

Plain(type, kids) == El(type, Undefined, 0, Undefined, FALSE, kids, Undefined, <<>>)

WithLang(type, lang, kids) == [Plain(type, kids) EXCEPT !.lang = lang]

\* WithText that drops the text
WithTextDropped(type, text) == Plain(type, "none")

WithText(type, text) == [Plain(type, "text") EXCEPT !.text = text]

HeadingEl(level, lang, kids) == [Plain("Heading", kids) EXCEPT !.level = level, !.lang = lang]

\* props.children is truthy: an element or an array always, a text unless it
\* is empty
HasChildren(props) ==
  CASE props.kids = "none" -> FALSE
    [] props.kids = "text" -> Truthy(props.text)
    [] OTHER -> TRUE

\* the component renders the props.children it is given: the helpers take no
\* props.children, DescriptionList renders its items instead when it has any
RendersChildren(props) ==
  /\ props.type \notin {"MetaCharset", "MetaViewport", "MetaDescription",
                        "CanonicalLink", "StylesheetLink"}
  /\ ~(props.type = "DescriptionList" /\ props.items)

\* an emitted node; text: its children when they are a text
Node(depth, tag, lang) ==
  [depth |-> depth, tag |-> tag, lang |-> lang, charSet |-> Undefined,
   name |-> Undefined, content |-> Undefined, itemProp |-> Undefined,
   rel |-> Undefined, text |-> Undefined]

Scope(ancestry, language, level) ==
  [ancestry |-> ancestry, language |-> language, level |-> level]

----------------------------------------------------------------------------
(* The wrappers of the element factory *)

\* the lang attribute passed on and the LanguageContext value of the children
withLanguage(props, parentLanguage) ==
  IF ~Truthy(props.lang) \/ props.lang = parentLanguage
  THEN [lang |-> Undefined, language |-> parentLanguage]
  ELSE IF HasChildren(props)
  THEN [lang |-> props.lang, language |-> props.lang]
  ELSE [lang |-> props.lang, language |-> parentLanguage]

\* withElementLevel without the Provider: the children of an inline element
\* still read the level of its parent
withElementLevelUnprovided(level, parentLevel) ==
  IF parentLevel = "inline" /\ level = "block"
  THEN [error |-> InvalidNesting, level |-> parentLevel]
  ELSE [error |-> None, level |-> parentLevel]

\* withElementLevel that provides the level of every element to its children
\* and never throws
withElementLevelOwn(level, parentLevel) == [error |-> None, level |-> level]

\* the Error thrown, if any, and the ElementLevelContext value of the children
withElementLevel(level, parentLevel) ==
  IF parentLevel = "block" /\ level = "inline"
  THEN [error |-> None, level |-> level]
  ELSE IF parentLevel = "inline" /\ level = "block"
  THEN [error |-> InvalidNesting, level |-> parentLevel]
  ELSE [error |-> None, level |-> parentLevel]

\* withAncestry without the check against body
withAncestryHeadOnly(name, props, children, ancestry) ==
  IF Includes(ancestry, "head") /\ "metadata" \notin ElementContentCategories(name, props)
  THEN [error |-> InvalidContentModel, ancestry |-> ancestry]
  ELSE [error |-> None,
        ancestry |-> IF children THEN Append(ancestry, name) ELSE ancestry]

\* withAncestry without the check against head
withAncestryBodyOnly(name, props, children, ancestry) ==
  IF Includes(ancestry, "body") /\ "flow" \notin ElementContentCategories(name, props)
  THEN [error |-> InvalidContentModel, ancestry |-> ancestry]
  ELSE [error |-> None,
        ancestry |-> IF children THEN Append(ancestry, name) ELSE ancestry]

\* the Error thrown, if any, and the AncestryContext value of the children;
\* children: whether the children prop it receives is truthy
withAncestry(name, props, children, ancestry) ==
  LET contentCategories == ElementContentCategories(name, props) IN
  IF Includes(ancestry, "body") /\ "flow" \notin contentCategories
  THEN [error |-> InvalidContentModel, ancestry |-> ancestry]
  ELSE IF Includes(ancestry, "head") /\ "metadata" \notin contentCategories
  THEN [error |-> InvalidContentModel, ancestry |-> ancestry]
  ELSE [error |-> None,
        ancestry |-> IF children THEN Append(ancestry, name) ELSE ancestry]

\* the Error of the first wrapper that throws, the lang attribute the
\* component receives and the contexts of the children, from what the three
\* wrappers yield (l: withLanguage, v: withElementLevel, a: withAncestry)
Wrapped(l, v, a) ==
  [error |-> IF v.error # None THEN v.error ELSE a.error,
   lang |-> l.lang,
   scope |-> Scope(a.ancestry, l.language, v.level)]

\* element(): withLanguage renders first, then withElementLevel, then
\* withAncestry, then the component.  withAncestry receives truthy children
\* when the element has children or withElementLevel wrapped them in its
\* Provider.
element(type, props, scope) ==
  Wrapped(withLanguage(props, scope.language),
          withElementLevel(ElementLevels(ElementNameOf(type)), scope.level),
          withAncestry(ElementNameOf(type), props,
                       HasChildren(props)
                         \/ (scope.level = "block"
                               /\ ElementLevels(ElementNameOf(type)) = "inline"),
                       scope.ancestry))

----------------------------------------------------------------------------
(* Components *)

\* `h${level}`
HTag(level) == "h" \o ToString(level)

\* the message of the Error that Heading throws
HeadingMessage(level, previous) ==
  "Heading level " \o ToString(level)
    \o " not allowed: previous level is " \o ToString(previous)

\* what one constructor call yields: the Error thrown (with the two numbers of
\* the heading message), or the nodes emitted (the element, then what its
\* component renders itself), the contexts its children read, the new
\* headingLevel.current, the level prop of a heading (0: none), and the
\* children the component decided
Thrown(kind, level, previous, current) ==
  [error |-> kind, level |-> level, previous |-> previous, nodes |-> <<>>,
   scope |-> Scope(<<>>, Undefined, Undefined), current |-> current,
   heading |-> 0, todo |-> <<>>]

Rendered(nodes, scope, current, heading, todo) ==
  [error |-> None, level |-> 0, previous |-> 0, nodes |-> nodes,
   scope |-> scope, current |-> current, heading |-> heading, todo |-> todo]

\* the node with the text, when the children are a text, and the itemProp
\* of the props spread on it
Filled(node, props) ==
  [(IF props.kids = "text" THEN [node EXCEPT !.text = props.text] ELSE node)
     EXCEPT !.itemProp = props.itemProp]

\* the host element a component renders inside the wrappers, e: what the
\* wrappers yield; a void element reaches React with the children it was
\* given, an empty text or array too, and React throws
Created(type, props, e, current, depth) ==
  IF e.error # None THEN Thrown(e.error, 0, 0, current)
  ELSE IF ElementNameOf(type) \in VoidTags /\ props.kids # "none"
  THEN Thrown(VoidElement, 0, 0, current)
  ELSE Rendered(
         <<Filled(Node(depth, ElementNameOf(type), e.lang), props)>>,
         e.scope, current, 0, props.plan)

\* the component element() uses when none is given: React.createElement(name, props)
createElement(type, props, scope, current, depth) ==
  Created(type, props, element(type, props, scope), current, depth)

\* Ranked that never writes headingLevel.current
RankedForgetful(props, l, level, scope, current, depth) ==
  IF Abs(level - current) > 1
  THEN Thrown(SkippedHeadingRank, level, current, current)
  ELSE Rendered(<<Filled(Node(depth, HTag(level), l.lang), props)>>,
                Scope(scope.ancestry, l.language, scope.level),
                current, props.level, props.plan)

\* Ranked without Math.abs: only a step up is checked
RankedUpward(props, l, level, scope, current, depth) ==
  IF level - current > 1
  THEN Thrown(SkippedHeadingRank, level, current, current)
  ELSE Rendered(<<Filled(Node(depth, HTag(level), l.lang), props)>>,
                Scope(scope.ancestry, l.language, scope.level),
                level, props.level, props.plan)

\* Ranked that writes headingLevel.current before it compares
RankedWrittenFirst(props, l, level, scope, current, depth) ==
  IF Abs(level - current) > 1
  THEN Thrown(SkippedHeadingRank, level, level, level)
  ELSE Rendered(<<Filled(Node(depth, HTag(level), l.lang), props)>>,
                Scope(scope.ancestry, l.language, scope.level),
                level, props.level, props.plan)

\* the rank check of Heading, l: what its withLanguage yields
Ranked(props, l, level, scope, current, depth) ==
  IF Abs(level - current) > 1
  THEN Thrown(SkippedHeadingRank, level, current, current)
  ELSE Rendered(<<Filled(Node(depth, HTag(level), l.lang), props)>>,
                Scope(scope.ancestry, l.language, scope.level),
                level, props.level, props.plan)

\* Heading with the block/inline check of a block-level factory element
HeadingLevelChecked(props, scope, current, depth) ==
  IF scope.level = "inline"
  THEN Thrown(InvalidNesting, 0, 0, current)
  ELSE Ranked(props, withLanguage(props, scope.language),
              IF props.level = 0 THEN current ELSE props.level,
              scope, current, depth)

\* Heading whose level is 1 when none is given
HeadingFromOne(props, scope, current, depth) ==
  Ranked(props, withLanguage(props, scope.language),
         IF props.level = 0 THEN 1 ELSE props.level,
         scope, current, depth)

\* Heading: withLanguage around the rank check; level = newLevel || current
Heading(props, scope, current, depth) ==
  Ranked(props, withLanguage(props, scope.language),
         IF props.level = 0 THEN current ELSE props.level,
         scope, current, depth)

\* the Heading that Hn renders inside the wrappers of element(): it reads
\* the LanguageContext outside them, its children read the contexts inside
Inner(e, h, current) ==
  IF e.error # None THEN Thrown(e.error, 0, 0, current)
  ELSE IF h.error # None THEN h
  ELSE [h EXCEPT !.scope = Scope(e.scope.ancestry, h.scope.language,
                                 e.scope.level)]

\* Levelled with the props spread after the level: a level of the caller wins
LevelledByCaller(props, e, n) ==
  [props EXCEPT !.lang = e.lang, !.level = IF props.level # 0 THEN props.level ELSE n]

\* with the lang the wrappers pass on and the level that Hn sets
Levelled(props, e, n) == [props EXCEPT !.lang = e.lang, !.level = n]

\* H1 .. H6: element() around <Heading {...props} level={n} />
HN(type, n, props, scope, current, depth) ==
  Inner(element(type, props, scope),
        Heading(Levelled(props, element(type, props, scope), n),
                scope, current, depth),
        current)

HNLevel(type) ==
  CASE type = "H1" -> 1 [] type = "H2" -> 2 [] type = "H3" -> 3
    [] type = "H4" -> 4 [] type = "H5" -> 5 [] type = "H6" -> 6

\* r with the attributes a helper sets on the element it renders
Attrs(r, charSet, name, content, rel) ==
  IF r.error # None THEN r
  ELSE [r EXCEPT !.nodes = <<[r.nodes[1] EXCEPT !.charSet = charSet,
                                                !.name = name,
                                                !.content = content,
                                                !.rel = rel]>>]

\* <Meta charSet="utf-8" />
MetaCharset(scope, current, depth) ==
  Attrs(createElement("Meta", Plain("Meta", "none"), scope, current, depth),
        "utf-8", Undefined, Undefined, Undefined)

\* <Meta name="description" content={description} />, description from
\* DescriptionContext
MetaDescription(description, scope, current, depth) ==
  Attrs(createElement("Meta", Plain("Meta", "none"), scope, current, depth),
        Undefined, "description", description, Undefined)

\* `width=${width}, initial-scale=${initialScale}`
ViewportContent(width, initialScale) ==
  "width=" \o width \o ", initial-scale=" \o ToString(initialScale)

\* <Meta name="viewport" content={...} />, width "device-width" and
\* initialScale 1 by default
MetaViewport(scope, current, depth) ==
  Attrs(createElement("Meta", Plain("Meta", "none"), scope, current, depth),
        Undefined, "viewport", ViewportContent("device-width", 1), Undefined)

\* <Link rel="canonical" href={href} />
CanonicalLink(scope, current, depth) ==
  Attrs(createElement("Link", Plain("Link", "none"), scope, current, depth),
        Undefined, Undefined, Undefined, "canonical")

\* <Link rel="stylesheet" href={href} />
StylesheetLink(scope, current, depth) ==
  Attrs(createElement("Link", Plain("Link", "none"), scope, current, depth),
        Undefined, Undefined, Undefined, "stylesheet")

\* <title>{title}</title>
Title(title, depth) == [Node(depth, "title", Undefined) EXCEPT !.text = title]

\* HeadRendered with the viewport meta before the charset meta
HeadRenderedViewportFirst(props, e, c, v, m, title, current, depth) ==
  IF e.error # None THEN Thrown(e.error, 0, 0, current)
  ELSE IF c.error # None THEN c
  ELSE IF v.error # None THEN v
  ELSE IF m.error # None THEN m
  ELSE Rendered(<<Filled(Node(depth, "head", e.lang), props)>>
                  \o v.nodes \o c.nodes \o m.nodes \o <<title>>,
                e.scope, current, 0, props.plan)

\* the head that Head renders inside the wrappers: the three metas (c, v, m)
\* and the title, before props.children
HeadRendered(props, e, c, v, m, title, current, depth) ==
  IF e.error # None THEN Thrown(e.error, 0, 0, current)
  ELSE IF c.error # None THEN c
  ELSE IF v.error # None THEN v
  ELSE IF m.error # None THEN m
  ELSE Rendered(<<Filled(Node(depth, "head", e.lang), props)>>
                  \o c.nodes \o v.nodes \o m.nodes \o <<title>>,
                e.scope, current, 0, props.plan)

\* Head (HeadElement here, Head being the Sequences operator): element()
\* around the head; the metas are rendered outside the Providers of the
\* wrappers, so they read the contexts that Head itself reads
HeadElement(props, doc, scope, current, depth) ==
  HeadRendered(props, element("Head", props, scope),
               MetaCharset(scope, current, depth + 1),
               MetaViewport(scope, current, depth + 1),
               MetaDescription(doc.description, scope, current, depth + 1),
               Title(doc.title, depth + 1), current, depth)

\* the dl that DescriptionList renders inside the wrappers: with items it
\* renders a DescriptionTerm and a DescriptionDetails for each (one item
\* here) outside the Providers of the wrappers, which wrap props.children
ListRendered(props, e, scope, current, depth) ==
  IF e.error # None THEN Thrown(e.error, 0, 0, current)
  ELSE IF props.items
  THEN Rendered(<<[Node(depth, "dl", e.lang) EXCEPT !.itemProp = props.itemProp]>>,
                scope, current, 0,
                <<Plain("DescriptionTerm", "free"),
                  Plain("DescriptionDetails", "free")>>)
  ELSE Rendered(<<Filled(Node(depth, "dl", e.lang), props)>>, e.scope, current,
                0, props.plan)

DescriptionList(props, scope, current, depth) ==
  ListRendered(props, element("DescriptionList", props, scope), scope, current,
               depth)

\* a host element written as such (<p>, <h1>, <meta>): no wrapper, no context
Host(props, scope, current, depth) ==
  Rendered(<<Filled(Node(depth, props.type, props.lang), props)>>, scope,
           current, 0, props.plan)

HostTags == {"p"}

HNTypes == {"H1", "H2", "H3", "H4", "H5", "H6"}

\* one constructor call, by the type of the element
Render(props, doc, scope, current, depth) ==
  CASE props.type = "Heading" -> Heading(props, scope, current, depth)
    [] props.type \in HNTypes ->
         HN(props.type, HNLevel(props.type), props, scope, current, depth)
    [] props.type = "Head" -> HeadElement(props, doc, scope, current, depth)
    [] props.type = "DescriptionList" ->
         DescriptionList(props, scope, current, depth)
    [] props.type = "MetaCharset" -> MetaCharset(scope, current, depth)
    [] props.type = "MetaViewport" -> MetaViewport(scope, current, depth)
    [] props.type = "MetaDescription" ->
         MetaDescription(doc.description, scope, current, depth)
    [] props.type = "CanonicalLink" -> CanonicalLink(scope, current, depth)
    [] props.type = "StylesheetLink" -> StylesheetLink(scope, current, depth)
    [] props.type \in HostTags -> Host(props, scope, current, depth)
    [] OTHER -> createElement(props.type, props, scope, current, depth)

----------------------------------------------------------------------------
(* Document *)

\* props.children of Document: absent, null, one element, an array of
\* elements, or a text
Children(shape, elems, text) == [shape |-> shape, elems |-> elems, text |-> text]

NoChildren == Children("undefined", <<>>, Undefined)

\* DocumentChildren that takes every array of two for a Head and a Body
DocumentChildrenAnyPair(children) ==
  IF children.shape = "undefined"
  THEN <<Plain("Head", "none"), WithText("Body", " ")>>
  ELSE IF children.shape = "array" /\ Len(children.elems) = 2
  THEN children.elems
  ELSE IF children.shape = "element" /\ children.elems[1].type = "Head"
  THEN <<children.elems[1], WithText("Body", " ")>>
  ELSE IF children.shape = "element" /\ children.elems[1].type = "Body"
  THEN <<Plain("Head", "none"), children.elems[1]>>
  ELSE <<Plain("Head", "none"),
         IF children.shape = "text"
         THEN WithText("Body", children.text)
         ELSE [Plain("Body", "plan") EXCEPT !.plan = children.elems]>>

\* DocumentChildren whose Body beside a Head alone has no children
DocumentChildrenHeadOnlyEmpty(children) ==
  IF children.shape = "undefined"
  THEN <<Plain("Head", "none"), WithText("Body", " ")>>
  ELSE IF /\ children.shape = "array"
          /\ Len(children.elems) = 2
          /\ children.elems[1].type = "Head"
          /\ children.elems[2].type = "Body"
  THEN children.elems
  ELSE IF children.shape = "element" /\ children.elems[1].type = "Head"
  THEN <<children.elems[1], Plain("Body", "none")>>
  ELSE IF children.shape = "element" /\ children.elems[1].type = "Body"
  THEN <<Plain("Head", "none"), children.elems[1]>>
  ELSE <<Plain("Head", "none"),
         IF children.shape = "text"
         THEN WithText("Body", children.text)
         ELSE [Plain("Body", "plan") EXCEPT !.plan = children.elems]>>

\* the children Document renders inside <html>
DocumentChildren(children) ==
  LET emptyBody == children.shape = "undefined"
      headAndBody == /\ ~emptyBody
                     /\ children.shape = "array"
                     /\ Len(children.elems) = 2
                     /\ children.elems[1].type = "Head"
                     /\ children.elems[2].type = "Body"
      headOnly == /\ ~headAndBody
                  /\ children.shape = "element"
                  /\ children.elems[1].type = "Head"
      bodyOnly == /\ ~headAndBody
                  /\ children.shape = "element"
                  /\ children.elems[1].type = "Body"
  IN IF emptyBody THEN <<Plain("Head", "none"), WithText("Body", " ")>>
     ELSE IF headAndBody THEN children.elems
     ELSE IF headOnly THEN <<children.elems[1], WithText("Body", " ")>>
     ELSE IF bodyOnly THEN <<Plain("Head", "none"), children.elems[1]>>
     ELSE <<Plain("Head", "none"),
            IF children.shape = "text"
            THEN WithText("Body", children.text)
            ELSE [Plain("Body", "plan") EXCEPT !.plan = children.elems]>>

\* one ref for the whole process instead of one per Document
sharedLevelRef(d) == 1

\* the ref Document allocates with React.useRef(1) and provides as
\* HeadingLevelContext: one per Document rendered
headingLevelRef(d) == d

NoCall ==
  [type |-> Undefined, lang |-> Undefined, level |-> 0, itemProp |-> Undefined,
   items |-> FALSE, kids |-> None, planned |-> FALSE, path |-> <<>>,
   inherited |-> Undefined, depth |-> 0,
   seen |-> Scope(<<>>, Undefined, Undefined), current |-> 0,
   error |-> None, tag |-> Undefined, attr |-> Undefined,
   scope |-> Scope(<<>>, Undefined, Undefined)]

Init ==
  /\ status = [d \in Docs |-> "idle"]
  /\ ctx = [d \in Docs |->
             [lang |-> Undefined, title |-> Undefined, description |-> Undefined,
              children |-> NoChildren]]
  /\ stack = [d \in Docs |-> <<>>]
  /\ rank = [r \in Docs |-> 1]
  /\ out = [d \in Docs |-> <<>>]
  /\ last = [d \in Docs |-> NoCall]
  /\ hist = [d \in Docs |-> <<>>]
  /\ error = [d \in Docs |-> [level |-> 0, previous |-> 0, message |-> Undefined]]
  /\ calls = [d \in Docs |-> 0]

\* Document(props): the contexts it provides and the html it opens; reading
\* children.length of null throws
Document(d, props) ==
  /\ status[d] = "idle"
  /\ ctx' = [ctx EXCEPT ![d] = props]
  /\ IF props.children.shape = "null"
     THEN /\ status' = [status EXCEPT ![d] = TypeError]
          /\ UNCHANGED <<stack, rank, out>>
     ELSE /\ status' = [status EXCEPT ![d] = "open"]
          /\ stack' = [stack EXCEPT ![d] =
               <<[tag |-> "html", lang |-> props.lang,
                  scope |-> Scope(<<"html">>, props.lang, "block"),
                  todo |-> DocumentChildren(props.children),
                  free |-> FALSE]>>]
          /\ rank' = [rank EXCEPT ![headingLevelRef(d)] = 1]
          /\ out' = [out EXCEPT ![d] = <<Node(1, "html", props.lang)>>]
  /\ UNCHANGED <<last, hist, error, calls>>

\* the depths of the nodes kept in out: html, its children and theirs
Kept == {1, 2, 3}

KeptNodes(nodes) == SelectSeq(nodes, LAMBDA n : n.depth \in Kept)

\* the tags of the open elements, outermost first
Path(frames) == [i \in 1..Len(frames) |-> frames[i].tag]

\* the language HTML gives the content of the innermost open element: the
\* lang attribute of the nearest open element that has one
RECURSIVE Inherited(_)
Inherited(frames) ==
  IF frames = <<>> THEN Undefined
  ELSE IF frames[Len(frames)].lang # Undefined THEN frames[Len(frames)].lang
  ELSE Inherited(SubSeq(frames, 1, Len(frames) - 1))

\* the state after a constructor call of render d that yields r, made in
\* the innermost open element (top, the n-th) with rest left open
Constructed(d, props, planned, n, top, rest, r) ==
  /\ last' = [last EXCEPT ![d] =
        [type |-> props.type, lang |-> props.lang, level |-> props.level,
         itemProp |-> props.itemProp, items |-> props.items,
         kids |-> props.kids, planned |-> planned,
         path |-> Path(stack[d]), inherited |-> Inherited(stack[d]),
         depth |-> n + 1, seen |-> top.scope,
         current |-> rank[headingLevelRef(d)],
         error |-> r.error,
         tag |-> IF r.error = None THEN r.nodes[1].tag ELSE Undefined,
         attr |-> IF r.error = None THEN r.nodes[1].lang ELSE Undefined,
         scope |-> r.scope]]
  /\ hist' = [hist EXCEPT ![d] =
        IF r.error = SkippedHeadingRank \/ (r.error = None /\ r.heading # 0)
        THEN Append(@, [level |-> IF r.error = None THEN r.heading ELSE r.level,
                        depth |-> n + 1, calls |-> calls[d]])
        ELSE @]
  /\ IF r.error # None
     THEN /\ status' = [status EXCEPT ![d] = r.error]
          /\ stack' = [stack EXCEPT ![d] = <<>>]
          /\ out' = [out EXCEPT ![d] = <<>>]
          /\ error' = [error EXCEPT ![d] =
                         [level |-> r.level, previous |-> r.previous,
                          message |-> IF r.error = SkippedHeadingRank
                                      THEN HeadingMessage(r.level, r.previous)
                                      ELSE Undefined]]
          /\ rank' = [rank EXCEPT ![headingLevelRef(d)] = r.current]
     ELSE /\ stack' = [stack EXCEPT ![d] =
               IF (props.kids \in {"free", "plan"} /\ RendersChildren(props))
                    \/ r.todo # <<>>
               THEN Append(rest, [tag |-> r.nodes[1].tag,
                                  lang |-> r.nodes[1].lang,
                                  scope |-> r.scope,
                                  todo |-> r.todo,
                                  free |-> props.kids = "free"
                                             /\ RendersChildren(props)])
               ELSE rest]
          /\ out' = [out EXCEPT ![d] = @ \o KeptNodes(r.nodes)]
          /\ rank' = [rank EXCEPT ![headingLevelRef(d)] = r.current]
          /\ UNCHANGED <<status, error>>
  /\ UNCHANGED ctx

\* one constructor call of render d: props rendered against the contexts of
\* the innermost open element; planned: props is the next of its children
\* that a component decided, not one the caller writes now
Construct(d, props, planned) ==
  Constructed(d, props, planned, Len(stack[d]), stack[d][Len(stack[d])],
              IF planned
              THEN [stack[d] EXCEPT ![Len(stack[d])].todo = Tail(@)]
              ELSE stack[d],
              Render(props, ctx[d], stack[d][Len(stack[d])].scope,
                     rank[headingLevelRef(d)], Len(stack[d]) + 1))

\* the next child a component decided (Document's head and body, the children
\* wrapped in a Body, the dt and dd of a DescriptionList item)
Child(d) ==
  /\ status[d] = "open"
  /\ stack[d][Len(stack[d])].todo # <<>>
  /\ Construct(d, stack[d][Len(stack[d])].todo[1], TRUE)
  /\ UNCHANGED calls

\* the next element the caller wrote beneath the innermost open element
Element(d, props, bound) ==
  /\ status[d] = "open"
  /\ stack[d][Len(stack[d])].todo = <<>>
  /\ stack[d][Len(stack[d])].free
  /\ calls[d] < bound
  /\ calls' = [calls EXCEPT ![d] = @ + 1]
  /\ Construct(d, props, FALSE)

\* Close with contexts that are written instead of provided: what the
\* element closed gave its children stays in force for what follows it
CloseLeaking(d) ==
  /\ status[d] = "open"
  /\ stack[d][Len(stack[d])].todo = <<>>
  /\ stack' = [stack EXCEPT ![d] =
       IF Len(@) = 1 THEN <<>>
       ELSE [SubSeq(@, 1, Len(@) - 1) EXCEPT
               ![Len(@) - 1].scope = stack[d][Len(stack[d])].scope]]
  /\ status' = [status EXCEPT ![d] = IF Len(stack[d]) = 1 THEN "ok" ELSE @]
  /\ UNCHANGED <<ctx, rank, out, last, hist, error, calls>>

\* the children of the innermost open element are complete; with html the
\* render returns
Close(d) ==
  /\ status[d] = "open"
  /\ stack[d][Len(stack[d])].todo = <<>>
  /\ stack' = [stack EXCEPT ![d] = SubSeq(@, 1, Len(@) - 1)]
  /\ status' = [status EXCEPT ![d] = IF Len(stack[d]) = 1 THEN "ok" ELSE @]
  /\ UNCHANGED <<ctx, rank, out, last, hist, error, calls>>

----------------------------------------------------------------------------
(* Inputs *)

Langs == {"en-US", "sv-SE"}

\* elements that take children
Containers ==
  {"Anchor", "Body", "DescriptionDetails", "DescriptionList", "DescriptionTerm",
   "Div", "H1", "H2", "H3", "H4", "H5", "H6", "Head", "Main", "Span"} \cup HostTags

\* void elements and the helpers built on them
Voids ==
  {"Link", "Meta", "CanonicalLink", "StylesheetLink", "MetaCharset",
   "MetaViewport", "MetaDescription"}

\* every component, without lang
Elements ==
  {Plain(t, "free") : t \in Containers}
    \cup {Plain(t, "none") : t \in Voids}
    \cup {[Plain("Meta", "none") EXCEPT !.itemProp = "name"]}
    \cup {[Plain("DescriptionList", k) EXCEPT !.items = TRUE] : k \in {"none", "free"}}
    \cup {Plain("MetaCharset", "free"), WithText("Div", "")}
    \cup {HeadingEl(l, Undefined, "free") : l \in {0, 2}}

\* children of Document that let the caller write beneath head, beneath body
\* and beneath an inline element
Shapes ==
  {Children("element", <<Plain("Head", "free")>>, Undefined),
   Children("element", <<Plain("Body", "free")>>, Undefined),
   Children("element", <<Plain("Span", "free")>>, Undefined),
   Children("array", <<[Plain("Head", "plan") EXCEPT !.plan = <<Plain("Link", "none")>>],
                       Plain("Body", "free")>>, Undefined)}

Documents(langs, descriptions, shapes) ==
  [lang : langs, title : {"test"}, description : descriptions, children : shapes]

----------------------------------------------------------------------------
(* Specifications *)

\* one render of any tree of components
Next ==
  \/ \E p \in Documents({"en-US"}, {"testing"}, Shapes) : Document(1, p)
  \/ Child(1)
  \/ \E e \in Elements : Element(1, e, MaxCalls)
  \/ Close(1)

Spec == Init /\ [][Next]_vars

\* headings, with and without level, and H1 .. H6, anywhere among nested Divs
Headings ==
  {HeadingEl(l, Undefined, "none") : l \in 0..6}
    \cup {Plain(t, "none") : t \in HNTypes}
    \cup {[Plain("H3", "none") EXCEPT !.level = 1],
          [Plain("H1", "none") EXCEPT !.level = 5]}
    \cup {Plain("Div", "free")}

BodyOnly == Children("element", <<Plain("Body", "free")>>, Undefined)

NextHeadings ==
  \/ \E p \in Documents({"en-US"}, {"testing"}, {BodyOnly}) : Document(1, p)
  \/ Child(1)
  \/ \E e \in Headings : Element(1, e, MaxHeadingCalls)
  \/ Close(1)

SpecHeadings == Init /\ [][NextHeadings]_vars

\* two renders in progress at once, their steps in any order
NextTwo ==
  \E d \in Docs :
    \/ \E p \in Documents({"en-US"}, {"testing"}, {BodyOnly}) : Document(d, p)
    \/ Child(d)
    \/ \E l \in HeadingLevel : Element(d, HeadingEl(l, Undefined, "none"), MaxCalls)
    \/ Close(d)

SpecTwo == Init /\ [][NextTwo]_vars

\* the children of Document in each of its shapes
HeadContent == <<Plain("Meta", "none"), Plain("CanonicalLink", "none")>>

BodyContent == <<WithText("p", "one"), Plain("Div", "free")>>

DocumentShapes ==
  {NoChildren,
   Children("null", <<>>, Undefined),
   Children("text", <<>>, "hello"),
   Children("text", <<>>, ""),
   Children("element", <<Plain("Head", "none")>>, Undefined),
   Children("element", <<[Plain("Head", "none") EXCEPT !.itemProp = "name"]>>,
            Undefined),
   Children("element", <<Plain("Head", "free")>>, Undefined),
   Children("element", <<[Plain("Head", "plan") EXCEPT !.plan = HeadContent]>>,
            Undefined),
   Children("element", <<Plain("Body", "free")>>, Undefined),
   Children("element", <<WithText("Body", "hello")>>, Undefined),
   Children("element", <<Plain("Div", "free")>>, Undefined),
   Children("element", <<WithText("p", "one")>>, Undefined),
   Children("array", <<[Plain("Head", "plan") EXCEPT !.plan = HeadContent],
                       [Plain("Body", "plan") EXCEPT !.plan = BodyContent]>>,
            Undefined),
   Children("array", <<Plain("Head", "free"), Plain("Body", "free")>>, Undefined),
   Children("array", <<Plain("Body", "free"), Plain("Head", "free")>>, Undefined),
   Children("array", <<Plain("Head", "free"), Plain("Div", "free")>>, Undefined),
   Children("array", BodyContent, Undefined),
   Children("array", <<Plain("Head", "none"), Plain("Body", "none"),
                       Plain("Div", "none")>>, Undefined)}

DocumentElements ==
  {Plain(t, "free") : t \in {"Div", "Span", "Head", "Body"}}
    \cup {Plain(t, "none") : t \in {"Meta", "Link", "StylesheetLink"}}
    \cup {WithText("Meta", "x"), WithText("Meta", ""), Plain("Link", "free")}
    \cup {[Plain(t, "none") EXCEPT !.itemProp = "name"] :
            t \in {"Heading", "DescriptionList", "p"}}

NextDocument ==
  \/ \E p \in Documents(Langs, {"testing", "", Undefined}, DocumentShapes) :
       Document(1, p)
  \/ Child(1)
  \/ \E e \in DocumentElements : Element(1, e, MaxCalls)
  \/ Close(1)

SpecDocument == Init /\ [][NextDocument]_vars

\* elements that declare a lang or none, beneath one another
Languages ==
  {WithLang(t, l, k) : t \in {"Div", "Span"}, l \in Langs \cup {Undefined},
                       k \in {"free", "none"}}
    \cup {HeadingEl(0, l, "free") : l \in Langs \cup {Undefined}}
    \cup {[WithLang("Div", l, "text") EXCEPT !.text = ""] : l \in Langs}
    \cup {[WithLang("DescriptionList", l, "none") EXCEPT !.items = TRUE] :
            l \in Langs \cup {Undefined}}

NextLanguage ==
  \/ \E p \in Documents(Langs, {"testing"}, {BodyOnly}) : Document(1, p)
  \/ Child(1)
  \/ \E e \in Languages : Element(1, e, MaxCalls)
  \/ Close(1)

SpecLanguage == Init /\ [][NextLanguage]_vars

----------------------------------------------------------------------------
(* Claims *)

Levels(h) == [i \in 1..Len(h) |-> h[i].level]

\* the level the i-th explicit heading level is compared with by the claims:
\* the one before it, 1 for the first
Before(h, i) == IF i = 1 THEN 1 ELSE h[i - 1].level

LastLevel(h) == IF h = <<>> THEN 1 ELSE h[Len(h)].level

\* the indexes whose level is more than one step from the level before
Violating(h) == {i \in 1..Len(h) : Abs(h[i].level - Before(h, i)) > 1}

\* C1: the headings with explicit levels l1..ln of one Document, l0 = 1: the
\* render fails with SkippedHeadingRank exactly when some |l[i] - l[i-1]| > 1,
\* and it fails at the first such i, so no later heading is rendered.
C1_HeadingSteps ==
  /\ (status[1] = SkippedHeadingRank) <=> (Violating(hist[1]) # {})
  /\ Violating(hist[1]) \subseteq {Len(hist[1])}

\* two steps of one succeed, the third heading skips a rank
C1_Witness ==
  /\ status[1] = SkippedHeadingRank
  /\ Levels(hist[1]) = <<2, 3, 5>>

TagsAt(o, depth) ==
  LET sel == SelectSeq(o, LAMBDA n : n.depth = depth)
  IN [i \in 1..Len(sel) |-> sel[i].tag]

\* C2: every Document that returns yields one html node carrying the lang
\* given to Document, whose children are one head and then one body and
\* nothing else, whatever the children of Document are.
C2_HtmlHeadBody ==
  status[1] = "ok" =>
    /\ TagsAt(out[1], 1) = <<"html">>
    /\ out[1][1].tag = "html"
    /\ out[1][1].lang = ctx[1].lang
    /\ TagsAt(out[1], 2) = <<"head", "body">>

\* a Head and a Body given by the caller, in Swedish
C2_Witness ==
  /\ status[1] = "ok"
  /\ ctx[1].children.shape = "array"
  /\ ctx[1].children.elems[1].type = "Head"
  /\ ctx[1].lang = "sv-SE"

\* the children of the head node: what out holds between head and body
HeadKids(o) ==
  LET body == CHOOSE i \in 1..Len(o) : o[i].depth = 2 /\ o[i].tag = "body"
  IN SubSeq(o, 3, body - 1)

\* the Head the caller gave to Document, if any
CallerHead(children) ==
  IF children.shape = "element" /\ children.elems[1].type = "Head"
  THEN children.elems[1]
  ELSE IF /\ children.shape = "array"
          /\ Len(children.elems) = 2
          /\ children.elems[1].type = "Head"
          /\ children.elems[2].type = "Body"
  THEN children.elems[1]
  ELSE Plain("Head", "none")

\* C3: in every Document that returns, the head holds, in this order, the
\* charset meta (utf-8), the viewport meta (width=device-width,
\* initial-scale=1), the description meta with Document's description, the
\* title with Document's title, and then the content the caller gave to Head,
\* in the caller's order.
C3_HeadOrder ==
  status[1] = "ok" =>
    LET k == HeadKids(out[1])
        given == CallerHead(ctx[1].children)
    IN /\ Len(k) >= 4
       /\ k[1] = [Node(3, "meta", Undefined) EXCEPT !.charSet = "utf-8"]
       /\ k[2] = [Node(3, "meta", Undefined) EXCEPT
                    !.name = "viewport",
                    !.content = "width=device-width, initial-scale=1"]
       /\ k[3] = [Node(3, "meta", Undefined) EXCEPT
                    !.name = "description", !.content = ctx[1].description]
       /\ k[4] = [Node(3, "title", Undefined) EXCEPT !.text = ctx[1].title]
       /\ given.kids = "none" => Len(k) = 4
       /\ given.kids = "plan" =>
            /\ Len(k) = 4 + Len(given.plan)
            /\ k[5].tag = "meta" /\ k[5].rel = Undefined
            /\ k[6].tag = "link" /\ k[6].rel = "canonical"

\* a Head with a Meta and a CanonicalLink given by the caller
C3_Witness ==
  /\ status[1] = "ok"
  /\ ctx[1].children.shape = "array"
  /\ ctx[1].description = "testing"
  /\ Len(HeadKids(out[1])) = 6

\* C4 (as claimed): an element that declares lang L where the language is A
\* emits no lang when L = A, emits lang = L when L differs from A, emits no
\* lang when it declares none; and every element is constructed with, as its
\* ambient language, the lang of the nearest enclosing element that emitted
\* one (that of html when there is none).
C4_Claim ==
  last[1].type # Undefined /\ last[1].error = None =>
    /\ last[1].seen.language = last[1].inherited
    /\ last[1].lang = Undefined => last[1].attr = Undefined
    /\ last[1].lang # Undefined /\ last[1].lang = last[1].inherited =>
         last[1].attr = Undefined
    /\ last[1].lang # Undefined /\ last[1].lang # last[1].inherited =>
         last[1].attr = last[1].lang

BlockFactory ==
  {"Div", "Main", "DescriptionList", "DescriptionTerm", "DescriptionDetails",
   "Body", "Head"} \cup HNTypes

InlineFactory == {"Span", "Anchor"}

BeneathInline(path) == Includes(path, "span") \/ Includes(path, "a")

\* C5: a block-level factory element constructed anywhere beneath a Span or
\* an Anchor fails with InvalidNesting; an inline-level element never fails
\* with InvalidNesting.
C5_BlockInInline ==
  /\ last[1].type \in BlockFactory /\ BeneathInline(last[1].path) =>
       last[1].error = InvalidNesting
  /\ last[1].type \in InlineFactory => last[1].error # InvalidNesting

\* a Div in an Anchor in a Span
C5_Witness ==
  /\ last[1].type = "Div"
  /\ last[1].path = <<"html", "body", "span", "a">>
  /\ status[1] = InvalidNesting

\* C6: as content of a Head, every factory element without the category
\* metadata fails with InvalidContentModel; Link and Meta are accepted.
C6_HeadContent ==
  last[1].path = <<"html", "head">> =>
    /\ last[1].type \in BlockFactory \cup InlineFactory =>
         last[1].error = InvalidContentModel
    /\ last[1].type \in {"Link", "Meta"} => last[1].error = None

\* an Anchor in a Head
C6_Witness ==
  /\ last[1].type = "Anchor"
  /\ last[1].path = <<"html", "head">>
  /\ status[1] = InvalidContentModel

NonFlow ==
  {"Link", "CanonicalLink", "StylesheetLink", "MetaCharset", "MetaViewport",
   "MetaDescription"}

\* C7 (as claimed): Link, Meta without itemProp and the helpers built on them
\* fail with InvalidContentModel anywhere beneath body.
C7_Claim ==
  /\ Includes(last[1].path, "body")
  /\ \/ last[1].type \in NonFlow
     \/ last[1].type = "Meta" /\ ~Truthy(last[1].itemProp)
  => last[1].error = InvalidContentModel

\* C8 (as claimed): a Meta with itemProp is accepted anywhere beneath body,
\* also beneath a Span or an Anchor.
C8_Claim ==
  /\ Includes(last[1].path, "body")
  /\ last[1].type = "Meta"
  /\ Truthy(last[1].itemProp)
  => last[1].error = None

\* C9: the heading rank is one running value of the Document: whatever
\* elements were opened and closed since, it is the level of the latest
\* explicit heading (1 before the first), and a heading that fails reports
\* that level as the previous one.
C9_RunningRank ==
  /\ status[1] \in {"open", "ok"} =>
       rank[headingLevelRef(1)] = LastLevel(hist[1])
  /\ status[1] = SkippedHeadingRank =>
       error[1].previous = Before(hist[1], Len(hist[1]))

\* a Heading of level 2 in one Div, then a Heading of level 4 in the next Div
C9_Witness ==
  /\ status[1] = SkippedHeadingRank
  /\ hist[1] = <<[level |-> 2, depth |-> 4, calls |-> 1],
                 [level |-> 4, depth |-> 4, calls |-> 3]>>
  /\ error[1].previous = 2

\* C10: every Document starts with its own rank 1, and each of two Documents
\* rendered with their steps in any order fails or not, and ends with the
\* rank, that its own headings alone decide.
C10_Isolation ==
  \A d \in Docs :
    /\ status[d] = "open" /\ hist[d] = <<>> => rank[headingLevelRef(d)] = 1
    /\ status[d] \in {"open", "ok"} =>
         rank[headingLevelRef(d)] = LastLevel(hist[d])
    /\ (status[d] = SkippedHeadingRank) <=> (Violating(hist[d]) # {})
    /\ Violating(hist[d]) \subseteq {Len(hist[d])}

\* one Document reached level 3, the other fails at its first heading 3
C10_Witness ==
  /\ status[1] = "ok"
  /\ Levels(hist[1]) = <<2, 3>>
  /\ status[2] = SkippedHeadingRank
  /\ Levels(hist[2]) = <<3>>

\* C11: a Heading without level never fails with SkippedHeadingRank, emits
\* the h of the rank that was current when it was rendered, and leaves the
\* rank as it was; before any heading with a level that is an h1.
C11_DefaultLevel ==
  last[1].type = "Heading" /\ last[1].level = 0 =>
    /\ last[1].error = None
    /\ last[1].tag = HTag(last[1].current)
    /\ rank[headingLevelRef(1)] = last[1].current
    /\ last[1].current = LastLevel(hist[1])
    /\ hist[1] = <<>> => last[1].tag = "h1"

\* a Heading without level after the levels 2 and 3
C11_Witness ==
  /\ last[1].type = "Heading"
  /\ last[1].level = 0
  /\ Levels(hist[1]) = <<2, 3>>
  /\ last[1].tag = "h3"
  /\ rank[headingLevelRef(1)] = 3

\* C12: a Heading that fails with SkippedHeadingRank reports the level it
\* attempted and the rank that was current before the attempt, both in the
\* message of the error, and the rank after the failure is that rank still.
C12_SkippedReport ==
  status[1] = SkippedHeadingRank =>
    /\ last[1].error = SkippedHeadingRank
    /\ error[1].level = hist[1][Len(hist[1])].level
    /\ error[1].level = (IF last[1].type = "Heading" THEN last[1].level
                         ELSE HNLevel(last[1].type))
    /\ error[1].previous = last[1].current
    /\ error[1].message = HeadingMessage(error[1].level, last[1].current)
    /\ rank[headingLevelRef(1)] = last[1].current

\* Heading level 1 then Heading level 3
C12_Witness ==
  /\ status[1] = SkippedHeadingRank
  /\ Levels(hist[1]) = <<1, 3>>
  /\ error[1].message = "Heading level 3 not allowed: previous level is 1"
  /\ rank[headingLevelRef(1)] = 1

\* the body node, the last node of out when body has no element children
LastNode(o) == o[Len(o)]

\* C13: a Document without children that returns has a head holding the
\* three metas and the title and nothing else, and a body whose only child
\* is the text of one space.
C13_NoChildren ==
  status[1] = "ok" /\ ctx[1].children.shape = "undefined" =>
    /\ TagsAt(out[1], 2) = <<"head", "body">>
    /\ TagsAt(out[1], 3) = <<"meta", "meta", "meta", "title">>
    /\ Len(HeadKids(out[1])) = 4
    /\ LastNode(out[1]).tag = "body"
    /\ LastNode(out[1]).text = " "

\* <Document lang="sv-SE" title="test" />
C13_Witness ==
  /\ status[1] = "ok"
  /\ ctx[1].children = NoChildren
  /\ ctx[1].lang = "sv-SE"
  /\ ctx[1].description = Undefined
  /\ Len(out[1]) = 7

HeadAlone(children) ==
  children.shape = "element" /\ children.elems[1].type = "Head"

\* C14 (as claimed): a Document whose only child is a Head returns that Head
\* and a body without any children.
C14_Claim ==
  status[1] = "ok" /\ HeadAlone(ctx[1].children) =>
    /\ TagsAt(out[1], 2) = <<"head", "body">>
    /\ LastNode(out[1]).tag = "body"
    /\ LastNode(out[1]).text = Undefined

\* C14 (amended): a Document whose only child is a Head returns that Head,
\* with the content the caller gave it, and a body whose only child is the
\* text of one space, as a Document without children does.
C14_HeadAlone ==
  status[1] = "ok" /\ HeadAlone(ctx[1].children) =>
    /\ TagsAt(out[1], 2) = <<"head", "body">>
    /\ ctx[1].children.elems[1].kids = "plan" =>
         Len(HeadKids(out[1])) = 4 + Len(ctx[1].children.elems[1].plan)
    /\ LastNode(out[1]).tag = "body"
    /\ LastNode(out[1]).text = " "

\* <Document ...><Head><Meta /><CanonicalLink /></Head></Document>
C14_Witness ==
  /\ status[1] = "ok"
  /\ HeadAlone(ctx[1].children)
  /\ ctx[1].children.elems[1].plan = HeadContent
  /\ Len(out[1]) = 9
  /\ LastNode(out[1]).text = " "

\* C15 (as claimed): in a Document that returns, the description meta has a
\* content attribute: the description given to Document, the empty string
\* when none is given.
C15_Claim ==
  status[1] = "ok" =>
    /\ HeadKids(out[1])[3].name = "description"
    /\ HeadKids(out[1])[3].content =
         (IF ctx[1].description = Undefined THEN "" ELSE ctx[1].description)

\* C16 (as claimed): a Document construction, whatever its children, either
\* returns a complete html node or fails as a whole with one of
\* InvalidContentModel, InvalidNesting and SkippedHeadingRank: no other error
\* and no partial tree.
C16_Claim ==
  /\ status[1] \in {"idle", "open", "ok", InvalidContentModel, InvalidNesting,
                    SkippedHeadingRank}
  /\ status[1] = "ok" =>
       stack[1] = <<>> /\ TagsAt(out[1], 2) = <<"head", "body">>
  /\ status[1] \in ErrorKinds => out[1] = <<>>

\* the call breaks the content rule of body or of head
BreaksContent(call) ==
  \/ /\ Includes(call.path, "body")
     /\ "flow" \notin ElementContentCategories(ElementNameOf(call.type), call)
  \/ /\ Includes(call.path, "head")
     /\ "metadata" \notin ElementContentCategories(ElementNameOf(call.type), call)

\* the call breaks the block/inline rule
BreaksNesting(call) ==
  BeneathInline(call.path) /\ ElementLevels(ElementNameOf(call.type)) = "block"

\* C17 (as claimed): the content-category check comes before the block/inline
\* check: a factory element that breaks both rules fails with
\* InvalidContentModel, not with InvalidNesting.
C17_Claim ==
  /\ last[1].type \in Factory
  /\ BreaksContent(last[1])
  /\ BreaksNesting(last[1])
  => last[1].error = InvalidContentModel

\* C18: language, level and ancestry are lexically scoped: while an element
\* is open the contexts it gives its children do not change, whatever is
\* constructed and completed beneath it, and every element is constructed
\* against the contexts of the element it is placed in; so an element after
\* a subtree reads what was in force before the subtree.
C18_LexicalScope ==
  [][status[1] = "open" /\ status'[1] = "open" =>
       /\ \A i \in 1..Len(stack[1]) :
            i <= Len(stack'[1]) => stack'[1][i].scope = stack[1][i].scope
       /\ calls'[1] # calls[1] =>
            last'[1].seen = stack[1][Len(stack[1])].scope]_vars

\* in body, a Div after a Span that declared another lang and held a Span
C18_Witness ==
  /\ status[1] = "open"
  /\ calls[1] = 3
  /\ last[1].type = "Div"
  /\ last[1].error = None
  /\ last[1].path = <<"html", "body">>
  /\ last[1].seen = Scope(<<"html", "body">>, "en-US", "block")
  /\ Len(out[1]) = 9
  /\ out[1][8].tag = "span" /\ out[1][8].lang = "sv-SE"

\* C19: the level read along a path from html starts at block and only
\* changes from block to inline: beneath an open element whose children read
\* inline every open element gives inline to its children, and every
\* element constructed beneath a Span or an Anchor reads inline.
C19_LevelNarrows ==
  /\ status[1] = "open" => stack[1][1].scope.level = "block"
  /\ \A i, j \in 1..Len(stack[1]) :
       i < j /\ stack[1][i].scope.level = "inline" =>
         stack[1][j].scope.level = "inline"
  /\ \A i \in 1..Len(stack[1]) :
       stack[1][i].tag \in {"span", "a"} => stack[1][i].scope.level = "inline"
  /\ last[1].type # Undefined /\ BeneathInline(last[1].path) =>
       last[1].seen.level = "inline"

\* a Span in a Heading in a Span: the Heading is no factory element and is
\* not rejected, what is in it still reads inline
C19_Witness ==
  /\ status[1] = "open"
  /\ last[1].type = "Span"
  /\ last[1].path = <<"html", "body", "span", "h1">>
  /\ last[1].seen.level = "inline"
  /\ last[1].error = None
  /\ Len(stack[1]) = 5

\* C20 (as claimed): every element constructed beneath the components of
\* this library is validated against an ancestry that is exactly the tags of
\* its enclosing elements, html first, its parent last; also the dt and dd of
\* the items of a DescriptionList and what is nested in a Heading.
C20_Claim ==
  /\ last[1].type # Undefined
  /\ \A i \in 1..Len(last[1].path) : last[1].path[i] \notin HostTags
  => last[1].seen.ancestry = last[1].path

\* C21: the generic Heading is checked for its rank only, not for its
\* position: beneath a Span or an Anchor and beneath head it fails exactly
\* when its level skips a rank, never with InvalidNesting or
\* InvalidContentModel; H1 .. H6 fail with InvalidNesting beneath a Span or an
\* Anchor and with InvalidContentModel in a Head.
C21_HeadingUnchecked ==
  /\ last[1].type = "Heading" =>
       /\ last[1].error \in {None, SkippedHeadingRank}
       /\ last[1].error = SkippedHeadingRank <=>
            (last[1].level # 0 /\ Abs(last[1].level - last[1].current) > 1)
  /\ last[1].type \in HNTypes /\ BeneathInline(last[1].path) =>
       last[1].error = InvalidNesting
  /\ last[1].type \in HNTypes /\ last[1].path = <<"html", "head">> =>
       last[1].error = InvalidContentModel

\* a Heading of level 2 in an Anchor in a Span
C21_Witness ==
  /\ last[1].type = "Heading"
  /\ last[1].level = 2
  /\ last[1].path = <<"html", "body", "span", "a">>
  /\ last[1].seen.level = "inline"
  /\ last[1].error = None
  /\ last[1].tag = "h2"

\* children of Document that are none of: absent, a Head then a Body, a Head
\* alone, a Body alone
OtherChildren(children) ==
  /\ children.shape # "undefined"
  /\ ~HeadAlone(children)
  /\ ~(children.shape = "element" /\ children.elems[1].type = "Body")
  /\ ~(/\ children.shape = "array"
       /\ Len(children.elems) = 2
       /\ children.elems[1].type = "Head"
       /\ children.elems[2].type = "Body")

\* the tag an element of the caller is emitted with
TagOf(el) == IF el.type \in HostTags THEN el.type ELSE ElementNameOf(el.type)

\* the element children of the body node: what out holds after body
BodyKids(o) ==
  LET body == CHOOSE i \in 1..Len(o) : o[i].depth = 2 /\ o[i].tag = "body"
  IN SubSeq(o, body + 1, Len(o))

\* C22 (as claimed): for every children of Document other than the four
\* shapes, Document renders a Head without content of the caller and one Body
\* holding all the children in their order, and these children are
\* validated with the ancestry html, body.
C22_Claim ==
  status[1] # "idle" /\ OtherChildren(ctx[1].children) =>
    /\ status[1] # TypeError
    /\ last[1].planned /\ last[1].depth = 3 =>
         last[1].seen.ancestry = <<"html", "body">>
    /\ status[1] = "ok" =>
         /\ TagsAt(out[1], 2) = <<"head", "body">>
         /\ Len(HeadKids(out[1])) = 4
         /\ ctx[1].children.shape = "text" =>
              /\ LastNode(out[1]).tag = "body"
              /\ LastNode(out[1]).text = ctx[1].children.text
         /\ ctx[1].children.shape # "text" =>
              /\ Len(BodyKids(out[1])) = Len(ctx[1].children.elems)
              /\ \A i \in 1..Len(ctx[1].children.elems) :
                   BodyKids(out[1])[i].tag = TagOf(ctx[1].children.elems[i])

Count(seq, x) == Cardinality({i \in 1..Len(seq) : seq[i] = x})

\* C23: a Head or a Body is accepted only as a child of html: beneath head
\* or body it fails; so the html of a Document that returns has one head and
\* one body, no open element below the children of html is a head or a body,
\* and no element is validated against an ancestry with both head and body
\* or with one of them twice.
C23_HeadBodyPlacement ==
  /\ last[1].type \in {"Head", "Body"} /\ last[1].depth > 2 =>
       last[1].error \in {InvalidContentModel, InvalidNesting}
  /\ last[1].type \in {"Head", "Body"} /\ last[1].error = None =>
       last[1].path = <<"html">>
  /\ last[1].type # Undefined =>
       Count(last[1].seen.ancestry, "head") + Count(last[1].seen.ancestry, "body") <= 1
  /\ \A i \in 1..Len(stack[1]) :
       /\ i > 2 => stack[1][i].tag \notin {"head", "body"}
       /\ Count(stack[1][i].scope.ancestry, "head")
            + Count(stack[1][i].scope.ancestry, "body") <= 1
  /\ status[1] = "ok" =>
       /\ TagsAt(out[1], 2) = <<"head", "body">>
       /\ \A i \in 1..Len(out[1]) :
            out[1][i].depth > 2 => out[1][i].tag \notin {"head", "body"}

\* a Body in a Div in the Body
C23_Witness ==
  /\ last[1].type = "Body"
  /\ last[1].path = <<"html", "body", "div">>
  /\ last[1].seen.ancestry = <<"html", "body", "div">>
  /\ status[1] = InvalidContentModel

\* C24: H1 .. H6 use the running rank of the Document as Heading does: where
\* the block/inline and content rules admit it, Hn fails with
\* SkippedHeadingRank or succeeds exactly as a Heading of level n does with
\* the same contexts and rank, whatever level the caller passes; when it
\* succeeds it emits hn and the rank becomes n, when it fails the rank stays.
C24_HnAsHeading ==
  /\ last[1].type \in HNTypes
  /\ ~BreaksNesting(last[1])
  /\ ~BreaksContent(last[1])
  => /\ last[1].error =
          Heading(HeadingEl(HNLevel(last[1].type), last[1].lang, last[1].kids),
                  last[1].seen, last[1].current, last[1].depth).error
     /\ last[1].error = SkippedHeadingRank <=>
          Abs(HNLevel(last[1].type) - last[1].current) > 1
     /\ last[1].error \in {None, SkippedHeadingRank}
     /\ last[1].error = None =>
          /\ last[1].tag = HTag(HNLevel(last[1].type))
          /\ rank[headingLevelRef(1)] = HNLevel(last[1].type)
          /\ LastLevel(hist[1]) = HNLevel(last[1].type)
     /\ last[1].error = SkippedHeadingRank =>
          /\ rank[headingLevelRef(1)] = last[1].current
          /\ error[1].level = HNLevel(last[1].type)

\* an H1, then an H3 that the caller gave the level 1
C24_Witness ==
  /\ status[1] = SkippedHeadingRank
  /\ last[1].type = "H3"
  /\ last[1].level = 1
  /\ Levels(hist[1]) = <<1, 3>>
  /\ error[1].previous = 1

\* C25: a Meta with itemProp that the caller puts in a Head is accepted: its
\* categories still hold metadata, so the rule of head does not reject it,
\* and it is emitted as a meta of the head.
C25_ItemPropInHead ==
  /\ last[1].type = "Meta"
  /\ Truthy(last[1].itemProp)
  /\ last[1].path = <<"html", "head">>
  => /\ "metadata" \in ElementContentCategories("meta", last[1])
     /\ last[1].seen.ancestry = <<"html", "head">>
     /\ last[1].error = None
     /\ last[1].tag = "meta"
     /\ status[1] \in {"open", "ok"}
     /\ LastNode(out[1]).itemProp = last[1].itemProp

\* <Head><Meta itemProp="name" /></Head>: the meta is the fifth child of head
C25_Witness ==
  /\ status[1] = "open"
  /\ last[1].type = "Meta"
  /\ last[1].itemProp = "name"
  /\ last[1].path = <<"html", "head">>
  /\ last[1].error = None
  /\ Len(out[1]) = 7
  /\ out[1][7].depth = 3 /\ out[1][7].tag = "meta" /\ out[1][7].itemProp = "name"

====
